---- MODULE Spec2Model ----
(***************************************************************************)
(* One run of one of the three provider scripts of the repository:         *)
(*   src/teams/teams.py  (Microsoft Graph, through msal)                   *)
(*   src/zoho/zoho.py    (Zoho Calendar; the Python text of lines 1-92)    *)
(*   src/zoom/zoom.py    (Zoom meetings)                                   *)
(* The remote endpoints are the environment: every HTTP answer (status and *)
(* JSON body) is chosen nondeterministically when the request is issued.   *)
(* The state is the script's variables, its position, the requests it has  *)
(* sent, the lines it has printed and the unhandled exception, if any.     *)
(* JSON bodies are modelled as JSON objects (Python dicts).                *)
(* zoho.py is modelled from its Python text, lines 1-92; lines 95-105 of   *)
(* the file hold a pasted authorization URL, which is not Python.          *)
(***************************************************************************)
EXTENDS Integers, Sequences, FiniteSets, TLC

VARIABLES provider, pc, requests, printed, fault,
          token, access_token, refresh_token, events, new_access_token,
          tokResp, getResp, refResp

vars == <<provider, pc, requests, printed, fault,
          token, access_token, refresh_token, events, new_access_token,
          tokResp, getResp, refResp>>

\* Longest list of records an events/meetings answer carries.
MaxRecords == 2

\* response.status_code == 200
OK == 200

\* 'page_size': 30
PAGE_SIZE == 30

Providers == {"graph", "zoho", "zoom"}

\* Status codes the endpoints answer with.
Statuses == {OK, 401, 500}

\* Opaque token strings the endpoints hand out.
TokenStrings == {"T", "U"}

(***************************************************************************)
(* Python values held by the script's variables.                           *)
(***************************************************************************)
Unset == [t |-> "unset", v |-> "unset"]
PyNone == [t |-> "None", v |-> "None"]
Str(s) == [t |-> "str", v |-> s]
Dict(d) == [t |-> "dict", v |-> d]
List(l) == [t |-> "list", v |-> l]

EmptyDict == [k \in {} |-> "T"]

\* bool(x) of a Python value, as `if tokens:` and `if meetings:` take it.
Truthy(x) ==
    CASE x.t = "None" -> FALSE
      [] x.t = "dict" -> DOMAIN x.v # {}
      [] x.t = "list" -> Len(x.v) > 0
      [] OTHER -> TRUE

\* d.get(k) on a dict of strings: the value, or None.
GetStr(d, k) == IF k \in DOMAIN d THEN Str(d[k]) ELSE PyNone

\* d.get(k, []) on a dict whose k holds a list.
GetList(d, k) == IF k \in DOMAIN d THEN d[k] ELSE <<>>

NoFault == [type |-> "none", at |-> "none"]
Raise(type, at) == [type |-> type, at |-> at]

Line(tag, val) == [tag |-> tag, val |-> val]

(***************************************************************************)
(* The environment: answers of the token, refresh and resource endpoints.  *)
(***************************************************************************)
NoResp == [status |-> 0, body |-> EmptyDict]
Resp(status, body) == [status |-> status, body |-> body]
Received(r) == r.status # 0

DictsOver(keys, vals) == UNION {[K -> vals] : K \in SUBSET keys}

TokenBodies == DictsOver({"access_token", "refresh_token", "error"}, TokenStrings)
RefreshBodies == DictsOver({"access_token", "error"}, TokenStrings)

TokenResponses == {Resp(s, b) : s \in Statuses, b \in TokenBodies}
RefreshResponses == {Resp(s, b) : s \in Statuses, b \in RefreshBodies}

\* The key under which each provider lists its records.
ListKey(p) ==
    CASE p = "graph" -> "value"
      [] p = "zoho" -> "data"
      [] p = "zoom" -> "meetings"

\* The fields of a record each script prints, in print order.
Fields(p) ==
    CASE p = "graph" -> <<"subject", "start", "end">>
      [] p = "zoho" -> <<"title", "start", "end">>
      [] p = "zoom" -> <<"id", "topic", "start_time", "join_url">>

FieldSet(p) == {Fields(p)[i] : i \in 1..Len(Fields(p))}

\* The value of field f of the i-th sample record: Graph nests its times.
FieldValue(p, f, i) ==
    IF p = "graph" /\ f \in {"start", "end"}
    THEN [dateTime |-> <<f, i>>]
    ELSE <<f, i>>

FullRecord(p, i) == [f \in FieldSet(p) |-> FieldValue(p, f, i)]

\* A record that lacks the last printed field.
ShortRecord(p) ==
    [f \in FieldSet(p) \ {Fields(p)[Len(Fields(p))]} |-> FieldValue(p, f, 1)]

Records(p) == {FullRecord(p, 1), FullRecord(p, 2), ShortRecord(p)}

RecordSeqs(p) == UNION {[1..n -> Records(p)] : n \in 0..MaxRecords}

\* A JSON object with the list key (or without it) and possibly a message.
EventBody(p, withList, rs, withMsg) ==
    [k \in (IF withList THEN {ListKey(p)} ELSE {}) \cup
           (IF withMsg THEN {"message"} ELSE {})
       |-> IF k = "message" THEN "m" ELSE rs]

EventBodies(p) ==
    {EventBody(p, TRUE, rs, m) : rs \in RecordSeqs(p), m \in BOOLEAN}
      \cup {EventBody(p, FALSE, <<>>, m) : m \in BOOLEAN}

EventResponses(p) == {Resp(s, b) : s \in Statuses, b \in EventBodies(p)}

(***************************************************************************)
(* Requests.                                                               *)
(***************************************************************************)
Request(method, url, bearer, params) ==
    [method |-> method, url |-> url, bearer |-> bearer, params |-> params]

\* A call that sends its request again.
Send_Retry(req) == <<req, req>>

\* One call of requests.post / requests.get / the msal client: one request.
Send(req) == <<req>>

GRAPH_TOKEN_URL == "https://login.microsoftonline.com/35590502-c139-4026-99ae-be0ce861ad8c"
GRAPH_ENDPOINT == "https://graph.microsoft.com/v1.0/users/sahaaninda@averbangladesh.onmicrosoft.com/events"
ZOHO_AUTH_URL == "https://accounts.zoho.com/oauth/v2/auth"
ZOHO_TOKEN_URL == "https://accounts.zoho.com/oauth/v2/token"
ZOHO_EVENTS_URL == "https://calendar.zoho.com/api/v2/calendars/primary/events"
TOKEN_URL == "https://zoom.us/oauth/token"
ZOOM_API_URL == "https://api.zoom.us/v2/users/me/meetings"

Init ==
    /\ provider \in Providers
    /\ pc = "start"
    /\ requests = <<>>
    /\ printed = <<>>
    /\ fault = NoFault
    /\ token = Unset
    /\ access_token = Unset
    /\ refresh_token = Unset
    /\ events = Unset
    /\ new_access_token = Unset
    /\ tokResp = NoResp
    /\ getResp = NoResp
    /\ refResp = NoResp


(***************************************************************************)
(* Python lookups.                                                         *)
(***************************************************************************)
\* x[k] on a Python value holding strings: KeyError when a dict lacks k,
\* TypeError when x is None.
Subscript(x, k) ==
    CASE x.t = "dict" /\ k \in DOMAIN x.v -> [err |-> "none", val |-> Str(x.v[k])]
      [] x.t = "dict" -> [err |-> "KeyError", val |-> Unset]
      [] OTHER -> [err |-> "TypeError", val |-> Unset]

(***************************************************************************)
(* Presentation: the lines one record prints, and whether the print        *)
(* completed (a missing field raises KeyError).                            *)
(***************************************************************************)
\* teams.py: one f-string per event; it is evaluated whole before printing.
graph_print_event(event) ==
    IF FieldSet("graph") \subseteq DOMAIN event
    THEN [ok |-> TRUE,
          lines |-> <<Line("Event", <<event["subject"], event["start"]["dateTime"],
                                      event["end"]["dateTime"]>>)>>]
    ELSE [ok |-> FALSE, lines |-> <<>>]

\* An event line with start and end exchanged.
zoho_print_event_Swapped(event) ==
    IF FieldSet("zoho") \subseteq DOMAIN event
    THEN [ok |-> TRUE,
          lines |-> <<Line("Event", <<event["title"], event["end"], event["start"]>>)>>]
    ELSE [ok |-> FALSE, lines |-> <<>>]

\* zoho.py: one f-string per event.
zoho_print_event(event) ==
    IF FieldSet("zoho") \subseteq DOMAIN event
    THEN [ok |-> TRUE,
          lines |-> <<Line("Event", <<event["title"], event["start"], event["end"]>>)>>]
    ELSE [ok |-> FALSE, lines |-> <<>>]

ZoomTags == <<"Meeting ID", "Topic", "Start Time", "Join URL">>

\* zoom.py: four prints and a separator per meeting, one after the other.
zoom_print_meeting(meeting) ==
    LET F == Fields("zoom")
        missing == {i \in 1..Len(F) : F[i] \notin DOMAIN meeting}
        stop == IF missing = {} THEN Len(F) + 1
                ELSE CHOOSE i \in missing : \A j \in missing : i <= j
        fieldLines == [i \in 1..(stop - 1) |-> Line(ZoomTags[i], meeting[F[i]])]
    IN  IF missing = {}
        THEN [ok |-> TRUE, lines |-> fieldLines \o <<Line("separator", 40)>>]
        ELSE [ok |-> FALSE, lines |-> fieldLines]

PrintRecord(p, r) ==
    CASE p = "graph" -> graph_print_event(r)
      [] p = "zoho" -> zoho_print_event(r)
      [] p = "zoom" -> zoom_print_meeting(r)

\* The for loop over the records: it stops at the first record that raises.
RECURSIVE PrintAll(_, _)
PrintAll(p, rs) ==
    IF Len(rs) = 0
    THEN [ok |-> TRUE, lines |-> <<>>]
    ELSE LET h == PrintRecord(p, Head(rs))
         IN  IF ~h.ok
             THEN h
             ELSE LET rest == PrintAll(p, Tail(rs))
                  IN  [ok |-> rest.ok, lines |-> h.lines \o rest.lines]

(***************************************************************************)
(* src/teams/teams.py                                                      *)
(***************************************************************************)
\* An authenticate() that hands back the whole result.
authenticate_WholeResult(result) ==
    IF "access_token" \in DOMAIN result
    THEN [err |-> "none", val |-> Dict(result)]
    ELSE [err |-> "Exception", val |-> Unset]

\* authenticate(): the token of the result msal returns, or a raise.
authenticate(result) ==
    IF "access_token" \in DOMAIN result
    THEN [err |-> "none", val |-> Str(result["access_token"])]
    ELSE [err |-> "Exception", val |-> Unset]

\* get_calendar_events(): the parsed body on 200, a raise otherwise.
get_calendar_events(response) ==
    IF response.status = OK
    THEN [err |-> "none", val |-> Dict(response.body)]
    ELSE [err |-> "Exception", val |-> Unset]

\* events.get('value', []) in place of events['value'].
GraphEventList_Default(evs) == [err |-> "none", val |-> GetList(evs.v, "value")]

\* events['value'] of the module-level loop.
GraphEventList(evs) ==
    IF "value" \in DOMAIN evs.v
    THEN [err |-> "none", val |-> evs.v["value"]]
    ELSE [err |-> "KeyError", val |-> <<>>]

\* token = authenticate(). msal issues the grant request; the script sees
\* only the dict msal returns, or msal's own exception. On a 200 answer msal
\* returns the body; otherwise either outcome is possible.
GraphAuthenticate ==
    /\ provider = "graph"
    /\ pc = "start"
    /\ \E resp \in TokenResponses, libRaises \in BOOLEAN :
         /\ resp.status = OK => ~libRaises
         /\ requests' = requests \o Send(Request("POST", GRAPH_TOKEN_URL, PyNone,
                                   [grant_type |-> "client_credentials"]))
         /\ tokResp' = resp
         /\ IF libRaises
            THEN /\ fault' = Raise("LibraryError", "authenticate")
                 /\ pc' = "exit"
                 /\ UNCHANGED <<token, printed>>
            ELSE LET r == authenticate(resp.body)
                 IN  IF r.err = "none"
                     THEN /\ printed' = Append(printed, Line("Authentication successful!", "-"))
                          /\ token' = r.val
                          /\ pc' = "fetch"
                          /\ UNCHANGED fault
                     ELSE /\ fault' = Raise(r.err, "authenticate")
                          /\ pc' = "exit"
                          /\ UNCHANGED <<token, printed>>
    /\ UNCHANGED <<provider, access_token, refresh_token, events, new_access_token,
                   getResp, refResp>>

\* events = get_calendar_events(token)
GraphGetCalendarEvents ==
    /\ provider = "graph"
    /\ pc = "fetch"
    /\ \E resp \in EventResponses("graph") :
         /\ requests' = requests \o Send(Request("GET", GRAPH_ENDPOINT, token, EmptyDict))
         /\ getResp' = resp
         /\ LET r == get_calendar_events(resp)
            IN  IF r.err = "none"
                THEN /\ events' = r.val
                     /\ pc' = "print"
                     /\ UNCHANGED fault
                ELSE /\ fault' = Raise(r.err, "fetch")
                     /\ pc' = "exit"
                     /\ UNCHANGED events
    /\ UNCHANGED <<provider, printed, token, access_token, refresh_token,
                   new_access_token, tokResp, refResp>>

\* print("Calendar Events:") and the loop over events['value'].
GraphPrintEvents ==
    /\ provider = "graph"
    /\ pc = "print"
    /\ LET l == GraphEventList(events)
           out == PrintAll("graph", l.val)
       IN  /\ printed' = Append(printed, Line("Calendar Events:", "-")) \o out.lines
           /\ fault' = IF l.err # "none" THEN Raise(l.err, "print")
                       ELSE IF ~out.ok THEN Raise("KeyError", "print")
                       ELSE fault
    /\ pc' = "exit"
    /\ UNCHANGED <<provider, requests, token, access_token, refresh_token, events,
                   new_access_token, tokResp, getResp, refResp>>

(***************************************************************************)
(* src/zoho/zoho.py                                                        *)
(***************************************************************************)
\* An exchange that parses the body whatever the status.
exchange_auth_code_for_tokens_AnyStatus(response) == Dict(response.body)

\* exchange_auth_code_for_tokens(): the parsed body on 200, None otherwise.
exchange_auth_code_for_tokens(response) ==
    IF response.status = OK THEN Dict(response.body) ELSE PyNone

ExchangePrints(response) ==
    IF response.status = OK
    THEN <<Line("Access Token:", GetStr(response.body, "access_token")),
           Line("Refresh Token:", GetStr(response.body, "refresh_token"))>>
    ELSE <<Line("Error exchanging code for tokens:", response.body)>>

\* A refresh that hands back the access token the run already holds.
refresh_access_token_Stale(response) ==
    IF response.status = OK THEN access_token ELSE PyNone

\* refresh_access_token(): the body's access_token on 200, None otherwise.
refresh_access_token(response) ==
    IF response.status = OK THEN GetStr(response.body, "access_token") ELSE PyNone

RefreshPrints(response) ==
    IF response.status = OK
    THEN <<Line("New Access Token:", GetStr(response.body, "access_token"))>>
    ELSE <<Line("Error refreshing access token:", response.body)>>

\* response.json().get('data', [])
ZohoEventList(body) == GetList(body, "data")

\* A main block without the `if tokens:` guard.
EntersFlow_Always(tokens) == TRUE

\* `if tokens:` of the main block.
EntersFlow(tokens) == Truthy(tokens)

\* A main block that refreshes only after a successful fetch.
AfterFetch_StopOnFailure(evs) == IF evs = PyNone THEN "exit" ELSE "refresh"

\* The main block calls refresh_access_token whatever the fetch returned.
AfterFetch(evs) == "refresh"

\* tokens = exchange_auth_code_for_tokens(...)
ZohoExchange ==
    /\ provider = "zoho"
    /\ pc = "start"
    /\ \E resp \in TokenResponses :
         /\ requests' = requests \o Send(Request("POST", ZOHO_AUTH_URL, PyNone,
                                   [grant_type |-> "authorization_code",
                                    code |-> "AUTHORIZATION_CODE_FROM_URL"]))
         /\ tokResp' = resp
         /\ printed' = printed \o ExchangePrints(resp)
         /\ token' = exchange_auth_code_for_tokens(resp)
    /\ pc' = "main"
    /\ UNCHANGED <<provider, fault, access_token, refresh_token, events,
                   new_access_token, getResp, refResp>>

\* print(tokens); if tokens: access_token = ...; refresh_token = ...
ZohoMain ==
    /\ provider = "zoho"
    /\ pc = "main"
    /\ printed' = Append(printed, Line("print", token))
    /\ IF EntersFlow(token)
       THEN LET a == Subscript(token, "access_token")
                r == Subscript(token, "refresh_token")
            IN  IF a.err # "none"
                THEN /\ fault' = Raise(a.err, "main")
                     /\ pc' = "exit"
                     /\ UNCHANGED <<access_token, refresh_token>>
                ELSE IF r.err # "none"
                THEN /\ access_token' = a.val
                     /\ fault' = Raise(r.err, "main")
                     /\ pc' = "exit"
                     /\ UNCHANGED refresh_token
                ELSE /\ access_token' = a.val
                     /\ refresh_token' = r.val
                     /\ pc' = "fetch"
                     /\ UNCHANGED fault
       ELSE /\ pc' = "exit"
            /\ UNCHANGED <<fault, access_token, refresh_token>>
    /\ UNCHANGED <<provider, requests, token, events, new_access_token,
                   tokResp, getResp, refResp>>

\* events = get_zoho_calendar_events(access_token, calendar_id)
ZohoGetEvents ==
    /\ provider = "zoho"
    /\ pc = "fetch"
    /\ \E resp \in EventResponses("zoho") :
         /\ requests' = requests \o Send(Request("GET", ZOHO_EVENTS_URL, access_token,
                                   [from |-> "2024-01-01T00:00:00Z",
                                    to |-> "2024-12-31T23:59:59Z"]))
         /\ getResp' = resp
         /\ IF resp.status = OK
            THEN LET evs == ZohoEventList(resp.body)
                     out == PrintAll("zoho", evs)
                 IN  /\ printed' = Append(printed, Line("Retrieved", Len(evs))) \o out.lines
                     /\ IF out.ok
                        THEN /\ events' = List(evs)
                             /\ pc' = AfterFetch(List(evs))
                             /\ UNCHANGED fault
                        ELSE /\ fault' = Raise("KeyError", "fetch")
                             /\ pc' = "exit"
                             /\ UNCHANGED events
            ELSE /\ printed' = Append(printed, Line("Error fetching events:", resp.body))
                 /\ events' = PyNone
                 /\ pc' = AfterFetch(PyNone)
                 /\ UNCHANGED fault
    /\ UNCHANGED <<provider, token, access_token, refresh_token, new_access_token,
                   tokResp, refResp>>

\* new_access_token = refresh_access_token(client_id, client_secret, refresh_token)
ZohoRefresh ==
    /\ provider = "zoho"
    /\ pc = "refresh"
    /\ \E resp \in RefreshResponses :
         /\ requests' = requests \o Send(Request("POST", ZOHO_TOKEN_URL, PyNone,
                                   [grant_type |-> "refresh_token",
                                    refresh_token |-> refresh_token]))
         /\ refResp' = resp
         /\ printed' = printed \o RefreshPrints(resp)
         /\ new_access_token' = refresh_access_token(resp)
    /\ pc' = "exit"
    /\ UNCHANGED <<provider, fault, token, access_token, refresh_token, events,
                   tokResp, getResp>>

(***************************************************************************)
(* src/zoom/zoom.py                                                        *)
(***************************************************************************)
\* A get_access_token() that reads the key with .get().
get_access_token_Lenient(response) ==
    [err |-> "none", val |-> GetStr(response.body, "access_token")]

\* get_access_token(): response.json()['access_token'], whatever the status.
get_access_token(response) == Subscript(Dict(response.body), "access_token")

\* get_zoom_events(): the parsed body, whatever the status.
get_zoom_events(response) == Dict(response.body)

\* meetings.get('meetings', [])
ZoomMeetingList(meetings) == GetList(meetings.v, "meetings")

\* token = get_access_token()
ZoomGetAccessToken ==
    /\ provider = "zoom"
    /\ pc = "start"
    /\ \E resp \in TokenResponses :
         /\ requests' = requests \o Send(Request("POST", TOKEN_URL, PyNone,
                                   [grant_type |-> "account_credentials"]))
         /\ tokResp' = resp
         /\ LET r == get_access_token(resp)
            IN  IF r.err = "none"
                THEN /\ token' = r.val
                     /\ pc' = "fetch"
                     /\ UNCHANGED fault
                ELSE /\ fault' = Raise(r.err, "get_access_token")
                     /\ pc' = "exit"
                     /\ UNCHANGED token
    /\ UNCHANGED <<provider, printed, access_token, refresh_token, events,
                   new_access_token, getResp, refResp>>

\* print(token); meetings = get_zoom_events(token)
ZoomGetEvents ==
    /\ provider = "zoom"
    /\ pc = "fetch"
    /\ printed' = Append(printed, Line("print", token))
    /\ \E resp \in EventResponses("zoom") :
         /\ requests' = requests \o Send(Request("GET", ZOOM_API_URL, token,
                                   [type |-> "upcoming", page_size |-> PAGE_SIZE]))
         /\ getResp' = resp
         /\ events' = get_zoom_events(resp)
    /\ pc' = "print"
    /\ UNCHANGED <<provider, fault, token, access_token, refresh_token,
                   new_access_token, tokResp, refResp>>

\* if meetings: print the meetings; else: print("No meetings found.")
ZoomPrintMeetings ==
    /\ provider = "zoom"
    /\ pc = "print"
    /\ IF Truthy(events)
       THEN LET out == PrintAll("zoom", ZoomMeetingList(events))
            IN  /\ printed' = Append(printed, Line("Meetings:", "-")) \o out.lines
                /\ fault' = IF out.ok THEN fault ELSE Raise("KeyError", "print")
       ELSE /\ printed' = Append(printed, Line("No meetings found.", "-"))
            /\ UNCHANGED fault
    /\ pc' = "exit"
    /\ UNCHANGED <<provider, requests, token, access_token, refresh_token, events,
                   new_access_token, tokResp, getResp, refResp>>

Next ==
    \/ GraphAuthenticate
    \/ GraphGetCalendarEvents
    \/ GraphPrintEvents
    \/ ZohoExchange
    \/ ZohoMain
    \/ ZohoGetEvents
    \/ ZohoRefresh
    \/ ZoomGetAccessToken
    \/ ZoomGetEvents
    \/ ZoomPrintMeetings

Spec == Init /\ [][Next]_vars

(***************************************************************************)
(* Vocabulary of the properties.                                           *)
(***************************************************************************)
Kind(req) ==
    IF req.method = "GET" THEN "get"
    ELSE IF req.url = ZOHO_TOKEN_URL THEN "refresh"
    ELSE "token"

HasGet == \E i \in 1..Len(requests) : Kind(requests[i]) = "get"

HasAccessToken(r) == "access_token" \in DOMAIN r.body

Printed(tag) == \E i \in 1..Len(printed) : printed[i].tag = tag

RecordTags == {"Event", "separator"} \cup {ZoomTags[i] : i \in 1..Len(ZoomTags)}

IsRecordLine(l) == l.tag \in RecordTags

\* The printed lines that belong to a record entry, in print order.
RecordLines == SelectSeq(printed, IsRecordLine)

\* The token acquisition step failed visibly: it raised, or printed its error.
AuthFailure ==
    \/ fault.at \in {"authenticate", "get_access_token"}
    \/ Printed("Error exchanging code for tokens:")

\* The fetch step failed visibly: it raised, or printed its error.
FetchFailure ==
    \/ fault.at = "fetch"
    \/ Printed("Error fetching events:")

OnlyAccessToken(T) == [k \in {"access_token"} |-> T]

\* C1: a resource GET is only ever sent after the token step of the run
\* returned the access_token of the grant answer, and carries that token; a
\* grant answer without an access_token key ends the run with no GET sent.
C1_TokenBeforeFetch ==
    /\ \A i \in 1..Len(requests) :
         Kind(requests[i]) = "get" =>
           /\ i > 1
           /\ Kind(requests[1]) = "token"
           /\ Received(tokResp)
           /\ HasAccessToken(tokResp)
           /\ requests[i].bearer = Str(tokResp.body["access_token"])
    /\ (Received(tokResp) /\ ~HasAccessToken(tokResp)) =>
           /\ ~HasGet
           /\ pc \in {"main", "exit"}
           /\ (pc = "main" => ~EntersFlow(token) \/ Subscript(token, "access_token").err # "none")

C1_Witness ==
    /\ pc = "exit"
    /\ Len(requests) >= 2
    /\ Kind(requests[2]) = "get"
    /\ requests[2].bearer = Str("T")

C3_Original ==
    \A T \in TokenStrings :
      (Received(tokResp) /\ tokResp.status = OK /\ tokResp.body = OnlyAccessToken(T)) =>
          /\ token = Str(T)
          /\ (pc = "exit" => HasGet)
          /\ \A i \in 1..Len(requests) :
               Kind(requests[i]) = "get" => requests[i].bearer = Str(T)

\* C3 (amended): on a 200 grant answer {"access_token": T} Graph and Zoom
\* return the string T and go on to send the GET with T. The Zoho exchange
\* returns the parsed body (a dict whose access_token is T), and the main
\* block then fails on the missing refresh_token before any GET; when the
\* body also carries a refresh_token the GET is sent with T.
C3_Amended ==
    \A T \in TokenStrings :
      /\ (provider \in {"graph", "zoom"} /\ Received(tokResp) /\ tokResp.status = OK
            /\ tokResp.body = OnlyAccessToken(T)) =>
            /\ token = Str(T)
            /\ pc # "fetch" => (Len(requests) >= 2 /\ Kind(requests[2]) = "get"
                                  /\ requests[2].bearer = Str(T))
      /\ (provider = "zoho" /\ Received(tokResp) /\ tokResp.status = OK
            /\ tokResp.body = OnlyAccessToken(T)) =>
            /\ token = Dict(OnlyAccessToken(T))
            /\ ~HasGet
            /\ pc \in {"main", "exit"}
            /\ pc = "exit" => (fault = Raise("KeyError", "main") /\ access_token = Str(T))
      /\ (provider = "zoho" /\ Received(tokResp) /\ tokResp.status = OK
            /\ HasAccessToken(tokResp) /\ tokResp.body["access_token"] = T
            /\ "refresh_token" \in DOMAIN tokResp.body) =>
            /\ token = Dict(tokResp.body)
            /\ pc \notin {"main", "fetch"} =>
                 (Len(requests) >= 2 /\ Kind(requests[2]) = "get"
                    /\ requests[2].bearer = Str(T))

C3_Witness ==
    /\ tokResp.status = OK
    /\ tokResp.body = OnlyAccessToken("T")
    /\ provider = "zoho"
    /\ pc = "exit"

\* C4: a non-200 answer of the events/meetings endpoint makes the fetch step
\* signal FetchFailure, and the run prints no record.
C4_Original ==
    (Received(getResp) /\ getResp.status # OK /\ pc = "exit") =>
        /\ FetchFailure
        /\ RecordLines = <<>>

\* C5 (as stated): once the resource GET has answered non-200, no further
\* HTTP request is sent in the run.
C5_Original ==
    (Received(getResp) /\ getResp.status # OK) => Len(requests) = 2

\* C5 (amended): after a non-200 answer to the resource GET, Graph and Zoom
\* send no further request. Zoho's fetch prints its error and returns None,
\* prints no record, and the run still sends its one refresh POST before it
\* ends normally.
C5_Amended ==
    (Received(getResp) /\ getResp.status # OK) =>
        /\ provider \in {"graph", "zoom"} => Len(requests) = 2
        /\ provider = "graph" => (pc = "exit" /\ fault = Raise("Exception", "fetch"))
        /\ provider = "zoho" =>
             /\ events = PyNone
             /\ Printed("Error fetching events:")
             /\ RecordLines = <<>>
             /\ fault = NoFault
             /\ \/ pc = "refresh" /\ Len(requests) = 2
                \/ pc = "exit" /\ Len(requests) = 3 /\ Kind(requests[3]) = "refresh"

C5_Witness ==
    /\ provider = "zoho"
    /\ getResp.status = 500
    /\ pc = "exit"
    /\ Len(requests) = 3

\* The indices of the refresh POSTs among the requests sent.
RefreshRequests == {i \in 1..Len(requests) : Kind(requests[i]) = "refresh"}

\* C6: on a 200 refresh answer carrying an access_token the Zoho refresh step
\* returns that answer's token, not the token of the earlier code exchange,
\* and a run sends at most one refresh request, carrying the refresh token of
\* the exchange.
C6_RefreshReturnsNewToken ==
    /\ Cardinality(RefreshRequests) <= 1
    /\ \A i \in RefreshRequests :
         /\ provider = "zoho"
         /\ requests[i].params["refresh_token"] = Str(tokResp.body["refresh_token"])
    /\ (Received(refResp) /\ refResp.status = OK /\ HasAccessToken(refResp)) =>
         /\ new_access_token = Str(refResp.body["access_token"])
         /\ refResp.body["access_token"] # tokResp.body["access_token"]
              => new_access_token # access_token

C6_Witness ==
    /\ pc = "exit"
    /\ refResp.status = OK
    /\ HasAccessToken(refResp)
    /\ access_token = Str("T")
    /\ new_access_token = Str("U")

\* The number of steps (acquisition, fetch, refresh) that have been invoked.
StepsInvoked ==
    (IF Received(tokResp) THEN 1 ELSE 0) + (IF Received(getResp) THEN 1 ELSE 0)
      + (IF Received(refResp) THEN 1 ELSE 0)

RequestOrder == <<"token", "get", "refresh">>

Listed == getResp.body[ListKey(provider)]

\* A record carries every field its provider's script prints.
WellFormed(r) == FieldSet(provider) \subseteq DOMAIN r

\* The field values of record r, in the provider's print order.
FieldValues(r) ==
    [j \in 1..Len(Fields(provider)) |->
        IF provider = "graph" /\ j > 1
        THEN r[Fields(provider)[j]]["dateTime"]
        ELSE r[Fields(provider)[j]]]

\* The values the i-th printed record entry shows.
EntryValues(i) ==
    IF provider = "zoom"
    THEN [j \in 1..4 |-> RecordLines[5 * (i - 1) + j].val]
    ELSE RecordLines[i].val

\* The records the fetch step handed back to its caller.
Returned ==
    CASE provider = "graph" -> events.v["value"]
      [] provider = "zoho" -> events.v
      [] provider = "zoom" -> events.v["meetings"]

C9_Original ==
    (/\ Received(getResp)
     /\ getResp.status = OK
     /\ ListKey(provider) \notin DOMAIN getResp.body
     /\ pc = "exit") =>
        fault.type = "KeyError"

\* C9 (amended): on a 200 answer whose body lacks the list key, only the
\* Graph run ends in an unhandled lookup failure (events['value']). Zoho and
\* Zoom read the key with a default of [], print no record and finish
\* without a fault.
C9_Amended ==
    (/\ Received(getResp)
     /\ getResp.status = OK
     /\ ListKey(provider) \notin DOMAIN getResp.body) =>
        /\ RecordLines = <<>>
        /\ (provider = "graph" /\ pc = "exit") => fault = Raise("KeyError", "print")
        /\ provider \in {"zoho", "zoom"} => fault = NoFault
        /\ provider = "zoho" => (events = List(<<>>) /\ pc \in {"refresh", "exit"})

C9_Witness ==
    /\ provider = "graph"
    /\ pc = "exit"
    /\ getResp.status = OK
    /\ ListKey(provider) \notin DOMAIN getResp.body
    /\ fault.type = "KeyError"

\* C10: the Zoho main block never dereferences the None a step returns on a
\* non-200 answer: no TypeError arises, an unhandled fault only ever comes
\* from a step whose answer was 200, and a failed code exchange is followed
\* by no fetch and no refresh request.
C10_SentinelNeverDereferenced ==
    provider = "zoho" =>
        /\ fault.type # "TypeError"
        /\ fault.at = "main" => tokResp.status = OK
        /\ fault.at = "fetch" => getResp.status = OK
        /\ fault.at \in {"none", "main", "fetch"}
        /\ (Received(tokResp) /\ tokResp.status # OK) =>
              (token = PyNone /\ Len(requests) = 1 /\ pc \in {"main", "exit"})
        /\ (Received(getResp) /\ getResp.status # OK) => events = PyNone
        /\ (Received(refResp) /\ refResp.status # OK) =>
              (new_access_token = PyNone /\ pc = "exit")

C10_Witness ==
    /\ provider = "zoho"
    /\ pc = "exit"
    /\ tokResp.status = 401
    /\ token = PyNone
    /\ fault = NoFault

====
